---- MODULE Spec2Model ----
(***************************************************************************)
(* The task list controller of static/js/task_manage.js and                *)
(* static/js/task_manage copy.js: the in-memory task cache, the selection  *)
(* and sort state, the rendered table and detail panel, the task form, and *)
(* the fetches in flight between the controller and the REST backend.      *)
(*                                                                         *)
(* Two revisions of initTaskManagement are modelled side by side:          *)
(*   "main"  task_manage.js, lines 5-703                                   *)
(*   "copy"  task_manage copy.js, lines 1205-2521                          *)
(* The variable `variant` says which revision a behaviour runs. The two    *)
(* share closeTaskDetail, renderTasksTable, loadTaskDetails, sortTasks and *)
(* setupSorting and differ in loadTasks, handleTaskRowClick,               *)
(* handleTaskSubmission and deleteTask (the copy alone has it).            *)
(* resetFilters is that of the copy, which is also that of the main        *)
(* revision for an administrator.                                          *)
(*                                                                         *)
(* Six specifications run the same handlers on different inputs:           *)
(*   Spec          the list, the selection, the detail panel, deletion     *)
(*   SpecForm      the modal, the form, submission, the selection timer    *)
(*   SpecSort      sorting, on tasks that differ in every sort key         *)
(*   SpecQuery     the query of loadTasks, on every combination of filters *)
(*   SpecComments  the comment form and the comment cards                  *)
(*   SpecRace      several loadTasks requests in flight at once            *)
(***************************************************************************)
EXTENDS Integers, Sequences, FiniteSets, Bags, TLC

\* ------------------------------------------------------------------ bounds

\* Task ids the backend serves to the controller specification.
MaxTasks == 2

\* Fetches and timers in flight at once.
MaxPending == 2

\* Fetches in flight at once in the panel specification, where the responses
\* of two row clicks overtake each other.
MaxPanelPending == 3

\* The comments a task has on the server, at most.
MaxComments == 1

\* Length of the task lists the sort specification draws.
MaxSortLen == 4

\* The charts one canvas of the dashboard gets at most.
MaxCharts == 3

\* The chart initialisations of one canvas that wait for their data at most.
MaxChartFetches == 2

\* ------------------------------------------------------------ program data

\* let selectedTaskId = null: the absent id, also the absent due date.
Null == 0

Variants == {"main", "copy"}

TaskIds == 1..MaxTasks

Priorities == {"urgent", "high", "medium", "low"}

Statuses == {"todo", "in_progress", "review", "done"}

\* The data-sort attributes of the table headers.
SortFields == {"title", "project", "assignee", "priority", "status", "due_date"}

\* The ids of the comments of a task.
CommentIds == 1..MaxComments

\* Strings are sequences of UTF-16 code units: "" , "a", "B", "b", " ", " a ".
StrEmpty == <<>>
StrA == <<97>>
StrUpperB == <<66>>
StrB == <<98>>
StrSpace == <<32>>
StrPaddedA == <<32, 97, 32>>

\* ------------------------------------------------------------------ strings

\* A trim that leaves the string as it is.
TrimNothing(s) == s

\* String.prototype.trim: the string without its leading and trailing blanks.
Trim(s) ==
    LET inked == { i \in DOMAIN s : s[i] # 32 }
    IN  IF inked = {} THEN <<>>
        ELSE SubSeq(s, CHOOSE i \in inked : \A j \in inked : i <= j,
                       CHOOSE i \in inked : \A j \in inked : i >= j)

\* -------------------------------------------------------------------- dates

\* The texts formatDate returns besides a date: 'Not set', 'Invalid date', and
\* the 'NaN' that String() makes of a number that is none.
StrNotSet == <<78, 111, 116, 32, 115, 101, 116>>
StrInvalidDate == <<73, 110, 118, 97, 108, 105, 100, 32, 100, 97, 116, 101>>
StrNaN == <<78, 97, 78>>

\* A value handed to formatDate: null or undefined when not present, a string
\* otherwise.
DateValue(present, text) == [ present |-> present, text |-> text ]

\* The decimal digits of a natural number, as String(n) writes them.
RECURSIVE NumberToString(_)
NumberToString(n) ==
    IF n < 10 THEN <<48 + n>> ELSE NumberToString(n \div 10) \o <<48 + (n % 10)>>

\* The number a string of decimal digits writes.
RECURSIVE DigitsToNumber(_)
DigitsToNumber(s) ==
    IF s = <<>> THEN 0
    ELSE 10 * DigitsToNumber(SubSeq(s, 1, Len(s) - 1)) + (s[Len(s)] - 48)

AllDigits(s) == \A i \in DOMAIN s : s[i] \in 48..57

\* String.prototype.padStart(2, '0')
PadStart2(s) == IF Len(s) < 2 THEN <<48>> \o s ELSE s

IsLeapYear(y) == (y % 4 = 0 /\ y % 100 # 0) \/ y % 400 = 0

DaysInMonth(y, m) ==
    IF m = 2 THEN (IF IsLeapYear(y) THEN 29 ELSE 28)
    ELSE IF m \in {4, 6, 9, 11} THEN 30 ELSE 31

\* A Date whose time value is NaN.
InvalidDate == <<>>

\* new Date(text) on the ISO forms YYYY-MM-DD and YYYY-MM-DDTHH:mmZ, both in
\* UTC: the year, month, day and hour of the instant; any other text, and a
\* field out of range, gives the invalid Date.
ParseDate(text) ==
    LET dateForm == /\ Len(text) \in {10, 17}
                    /\ AllDigits(SubSeq(text, 1, 4)) /\ text[5] = 45
                    /\ AllDigits(SubSeq(text, 6, 7)) /\ text[8] = 45
                    /\ AllDigits(SubSeq(text, 9, 10))
        timeForm == Len(text) = 17 =>
                        /\ text[11] = 84 /\ AllDigits(SubSeq(text, 12, 13))
                        /\ text[14] = 58 /\ AllDigits(SubSeq(text, 15, 16))
                        /\ text[17] = 90
        year  == DigitsToNumber(SubSeq(text, 1, 4))
        month == DigitsToNumber(SubSeq(text, 6, 7))
        day   == DigitsToNumber(SubSeq(text, 9, 10))
        hour  == IF Len(text) = 17 THEN DigitsToNumber(SubSeq(text, 12, 13)) ELSE 0
        mins  == IF Len(text) = 17 THEN DigitsToNumber(SubSeq(text, 15, 16)) ELSE 0
    IN  IF dateForm /\ timeForm /\ month \in 1..12 /\ day \in 1..DaysInMonth(year, month)
           /\ hour \in 0..23 /\ mins \in 0..59
        THEN << year, month, day, hour >>
        ELSE InvalidDate

\* new Date(date.getTime() + 8 * 60 * 60 * 1000): eight hours later, the
\* invalid Date staying invalid.
PlusEightHours(date) ==
    IF date = InvalidDate THEN InvalidDate
    ELSE IF date[4] + 8 < 24 THEN << date[1], date[2], date[3], date[4] + 8 >>
    ELSE IF date[3] < DaysInMonth(date[1], date[2])
         THEN << date[1], date[2], date[3] + 1, date[4] + 8 - 24 >>
    ELSE IF date[2] < 12 THEN << date[1], date[2] + 1, 1, date[4] + 8 - 24 >>
    ELSE << date[1] + 1, 1, 1, date[4] + 8 - 24 >>

\* String(field) of the getUTCFullYear(), getUTCMonth() + 1 or getUTCDate()
\* of a Date: 'NaN' for the invalid Date.
FieldToString(date, k) ==
    IF date = InvalidDate THEN StrNaN ELSE NumberToString(date[k])

\* formatDate(dateString): 'Not set' for a falsy value; otherwise the UTC date
\* of the instant eight hours later as year-month-day. No call in the try block
\* throws, so the catch that returns 'Invalid date' is never entered.
formatDate(dateString) ==
    IF ~dateString.present \/ dateString.text = <<>> THEN StrNotSet
    ELSE LET beijingDate == PlusEightHours(ParseDate(dateString.text))
         IN  FieldToString(beijingDate, 1) \o <<45>>
                \o PadStart2(FieldToString(beijingDate, 2)) \o <<45>>
                \o PadStart2(FieldToString(beijingDate, 3))

\* String.prototype.toLowerCase on the ASCII letters.
ToLowerCase(s) == [i \in DOMAIN s |-> IF s[i] \in 65..90 THEN s[i] + 32 ELSE s[i]]

\* The < of two strings: by code unit, a proper prefix first.
RECURSIVE StrLess(_, _)
StrLess(a, b) ==
    IF b = <<>> THEN FALSE
    ELSE IF a = <<>> THEN TRUE
    ELSE IF Head(a) < Head(b) THEN TRUE
    ELSE IF Head(a) > Head(b) THEN FALSE
    ELSE StrLess(Tail(a), Tail(b))

\* -------------------------------------------------------------------- sort

\* A rank table that follows the spelling of the priorities: what a
\* comparison of the strings themselves would give.
priorityLexOrder(p) ==
    CASE p = "high" -> 0
      [] p = "low" -> 1
      [] p = "medium" -> 2
      [] p = "urgent" -> 3
      [] OTHER -> 0

\* const priorityOrder = {urgent:0, high:1, medium:2, low:3}; a priority
\* outside the table gives undefined, replaced by '' which compares as 0.
priorityOrder(p) ==
    CASE p = "urgent" -> 0
      [] p = "high" -> 1
      [] p = "medium" -> 2
      [] p = "low" -> 3
      [] OTHER -> 0

\* const statusOrder = {todo:0, in_progress:1, review:2, done:3}
statusOrder(s) ==
    CASE s = "todo" -> 0
      [] s = "in_progress" -> 1
      [] s = "review" -> 2
      [] s = "done" -> 3
      [] OTHER -> 0

\* valueA < valueB for the switch on currentSortField.
ValueLess(a, b, field) ==
    CASE field = "project" -> StrLess(ToLowerCase(a.project), ToLowerCase(b.project))
      [] field = "assignee" -> StrLess(ToLowerCase(a.assignee), ToLowerCase(b.assignee))
      [] field = "priority" -> priorityOrder(a.priority) < priorityOrder(b.priority)
      [] field = "status" -> statusOrder(a.status) < statusOrder(b.status)
      [] field = "due_date" ->
            (IF a.due_date # Null THEN a.due_date ELSE 0)
                < (IF b.due_date # Null THEN b.due_date ELSE 0)
      [] OTHER -> StrLess(ToLowerCase(a.title), ToLowerCase(b.title))

\* The comparator handed to tasks.sort: -1, 0 or 1.
Compare(a, b, field, direction) ==
    IF ValueLess(a, b, field) THEN (IF direction = "asc" THEN -1 ELSE 1)
    ELSE IF ValueLess(b, a, field) THEN (IF direction = "asc" THEN 1 ELSE -1)
    ELSE 0

\* One step of a stable sort: x goes after the last element not above it.
RECURSIVE InsertSorted(_, _, _, _)
InsertSorted(s, x, field, direction) ==
    IF s = <<>> THEN <<x>>
    ELSE IF Compare(s[Len(s)], x, field, direction) <= 0 THEN Append(s, x)
    ELSE Append(InsertSorted(SubSeq(s, 1, Len(s) - 1), x, field, direction), s[Len(s)])

\* Array.prototype.sort with the comparator: a stable sort.
RECURSIVE StableSort(_, _, _)
StableSort(s, field, direction) ==
    IF s = <<>> THEN <<>>
    ELSE InsertSorted(StableSort(SubSeq(s, 1, Len(s) - 1), field, direction),
                      s[Len(s)], field, direction)

\* sortTasks(): tasks.sort(...) under currentSortField and currentSortDirection.
sortTasks(list, field, direction) == StableSort(list, field, direction)

\* ------------------------------------------------------------------- query

\* if (value && value !== 'all') params.append(name, value)
AppendFilter(params, name, value) ==
    IF value # "" /\ value # "all" THEN Append(params, <<name, value>>) ELSE params

\* A search text treated as the dropdowns are: 'all' is left out as well.
AppendTextSentinel(params, text) ==
    IF text # "" /\ text # "all" THEN Append(params, <<"search_text", text>>) ELSE params

\* if (text) params.append('search_text', text)
AppendText(params, text) ==
    IF text # "" THEN Append(params, <<"search_text", text>>) ELSE params

\* The URLSearchParams loadTasks builds from the five filter controls.
BuildParams(f) ==
    AppendText(
        AppendFilter(
            AppendFilter(
                AppendFilter(
                    AppendFilter(<<>>, "status", f.status),
                    "assignee", f.assignee),
                "project", f.project),
            "priority", f.priority),
        f.text)

\* ------------------------------------------------------------------- state

VARIABLES
    variant,                \* the revision of initTaskManagement that runs
    capacity,               \* how many fetches and timers the run lets be in flight
    tasks,                  \* let tasks: the cached task list
    tasksIsArray,           \* FALSE once tasks holds a response body that is no array
    currentSortField,       \* let currentSortField
    currentSortDirection,   \* let currentSortDirection
    selectedTaskId,         \* let selectedTaskId
    detailVisible,          \* let detailVisible
    table,                  \* the rows of #tasksTableBody that carry a task id
    emptyState,             \* #tasksTableBody shows the "No tasks found" row
    tasksCount,             \* the text of #tasksCount
    panelDisplayed,         \* #taskDetailContainer is displayed
    detailTask,             \* the id of the task rendered in the detail panel
    commentsOf,             \* the id of the task whose comments are rendered
    comments,               \* the ids of the comments rendered in #commentsContainer
    commentInput,           \* the value of #commentInput
    dateString,             \* the value handed to formatDate
    formatted,              \* the text formatDate returned for it, <<>> before the call
    chartInstances,         \* dashboard: per canvas the chart chartInstances refers to
    liveCharts,             \* dashboard: per canvas the charts created and not destroyed
    chartsCreated,          \* dashboard: per canvas the number of charts created
    chartFetches,           \* dashboard: per canvas the initialisations awaiting data
    canvasPresent,          \* dashboard: per canvas, the document holds its element
    resizeTimer,            \* dashboard: the debounce timer of handleResize is set
    filters,                \* the values of the five filter controls
    searchTimer,            \* the debounce timers of #textSearch set and not yet fired
    modalOpen,              \* #taskModal is shown
    formTaskId,             \* the value of the form's hidden #taskId input
    formSource,             \* the id of the task whose values fill the form
    pending,                \* the fetches and timers in flight: a bag
    alertMsg,               \* the alert raised by the handler that ran last
    lastOp                  \* the handler that ran last and the branch it took

vars ==
    << variant, capacity, tasks, tasksIsArray, currentSortField, currentSortDirection,
       selectedTaskId, detailVisible, table, emptyState, tasksCount,
       panelDisplayed, detailTask, commentsOf, comments, commentInput,
       dateString, formatted, chartInstances, liveCharts, chartsCreated, chartFetches,
       canvasPresent, resizeTimer, filters,
       searchTimer, modalOpen, formTaskId, formSource, pending, alertMsg, lastOp >>

\* The variables a handler that touches neither cache nor table leaves alone.
cacheVars == << tasks, tasksIsArray >>
sortVars == << currentSortField, currentSortDirection >>
tableVars == << table, emptyState, tasksCount >>
selectionVars == << selectedTaskId, detailVisible >>
panelVars == << panelDisplayed, detailTask, commentsOf >>
commentVars == << comments, commentInput >>
dateVars == << dateString, formatted >>
dashVars ==
    << chartInstances, liveCharts, chartsCreated, chartFetches, canvasPresent, resizeTimer >>
filterVars == << filters, searchTimer >>
formVars == << modalOpen, formTaskId, formSource >>

NoAlert == "none"

\* A task as the backend serves it.
Task(id, title, project, assignee, priority, status, due) ==
    [ id |-> id, title |-> title, project |-> project, assignee |-> assignee,
      priority |-> priority, status |-> status, due_date |-> due ]

\* The task versions the backend serves the controller specification: the
\* first task under two titles, as an edit of its title leaves it, the others
\* under one.
CtlTasks ==
    { Task(i, t, StrEmpty, StrEmpty, "medium", "todo", Null) :
        i \in TaskIds, t \in {StrA} } \cup
    { Task(1, StrB, StrEmpty, StrEmpty, "medium", "todo", Null) }

\* The task versions the backend serves the form specification.
FormTasks ==
    { Task(i, StrA, StrEmpty, StrEmpty, "medium", "todo", Null) : i \in TaskIds }

\* The tasks of the sort specification: at each position of a response one of
\* four profiles <<priority, status, title, due date>>; titles tie without
\* their case, a missing due date ties with the epoch.
SortProfiles ==
    { <<"urgent", "done", StrB, Null>>, <<"high", "review", StrA, 5>>,
      <<"medium", "in_progress", StrUpperB, -3>>, <<"low", "todo", StrEmpty, 0>> }

\* The task at position i of a response of the sort specification.
SortTask(i, p) == Task(i, p[3], p[3], ToLowerCase(p[3]), p[1], p[2], p[4])

\* Lists of at most n tasks with pairwise different ids.
DistinctIds(l) == \A i, j \in DOMAIN l : i # j => l[i].id # l[j].id

ListsOver(S, n) ==
    UNION { { l \in [1..k -> S] : DistinctIds(l) } : k \in 0..n }

CtlLists == ListsOver(CtlTasks, MaxTasks)

\* The responses of the form specification: the tasks by ascending id.
FormLists ==
    { [i \in 1..k |-> Task(i, StrA, StrEmpty, StrEmpty, "medium", "todo", Null)] :
        k \in 0..MaxTasks }

\* The responses of the sort specification: every arrangement of different
\* profiles.
SortLists ==
    UNION { { [i \in 1..k |-> SortTask(i, ps[i])] :
                ps \in { f \in [1..k -> SortProfiles] :
                            \A i, j \in 1..k : i # j => f[i] # f[j] } } :
            k \in 0..MaxSortLen }

\* ---------------------------------------------------------------- requests

\* A fetch or a timer in flight: what it is for, its HTTP method, the task (or
\* comment) id of its URL, whether that id is a number, and its query string.
Request(kind, method, id, numeric, query) ==
    [ kind |-> kind, method |-> method, id |-> id, numeric |-> numeric,
      query |-> query ]

\* fetch('/api/tasks?' + params)
TasksRequest(f) == Request("tasks", "GET", Null, TRUE, BuildParams(f))

\* fetch('/api/tasks/' + taskId) of loadTaskDetails; numeric is FALSE when the
\* id handed over is the string of a form field or of a data attribute.
DetailsRequest(id, numeric) == Request("details", "GET", id, numeric, <<>>)

\* fetch('/api/tasks/' + taskId + '/comments')
CommentsRequest(id) == Request("comments", "GET", id, TRUE, <<>>)

\* fetch('/api/tasks/' + taskId, {method: 'DELETE'})
DeleteRequest(id) == Request("delete", "DELETE", id, FALSE, <<>>)

\* fetch('/api/tasks/' + taskId) of openTaskModal
ModalRequest(id) == Request("modal", "GET", id, FALSE, <<>>)

\* fetch('/api/tasks/' + taskId + '/comments', {method: 'POST'}) of addComment
CommentPostRequest(id) == Request("comment.post", "POST", id, TRUE, <<>>)

\* fetch('/api/comments/' + commentId, {method: 'DELETE'}) of deleteComment
CommentDeleteRequest(id) == Request("comment.delete", "DELETE", id, FALSE, <<>>)

\* A submission that posts whatever the form carries.
SubmitMethodPost(taskId) == "POST"

\* const method = taskId ? 'PUT' : 'POST'
SubmitMethod(taskId) == IF taskId # Null THEN "PUT" ELSE "POST"

\* fetch(url, {method: method}) of handleTaskSubmission, the url being
\* '/api/tasks/' + taskId for an edit and '/api/tasks' for a create.
SubmitRequest(id) == Request("submit", SubmitMethod(id), id, FALSE, <<>>)

\* setTimeout(..., 300) of a successful create
SelectTimer(id) == Request("timer", "none", id, TRUE, <<>>)

InFlight(kind) == { r \in BagToSet(pending) : r.kind = kind }

Room(bag, n) == BagCardinality(bag) + n <= capacity

Issue(bag, reqs) == bag (+) SetToBag(reqs)

Settle(bag, req) == bag (-) SetToBag({req})

\* How a fetch can end: a 2xx response, a non-2xx response with a JSON error
\* body, a non-2xx response with another body, a transport failure.
Outcomes == {"ok", "http_json", "http_text", "network"}

\* ------------------------------------------------------------------ render

\* A rendering that marks the row of the selected task whether or not the
\* panel is visible.
renderTasksTableMarkId(list, selected, visible) ==
    [ i \in 1..Len(list) |-> [ task |-> list[i], selected |-> (selected = list[i].id) ] ]

\* renderTasksTable(list): a row per task, marked when it is the selected task
\* and the detail panel is visible.
renderTasksTable(list, selected, visible) ==
    [ i \in 1..Len(list) |->
        [ task |-> list[i], selected |-> (selected = list[i].id /\ visible) ] ]

\* document.querySelector('#tasksTableBody tr.selected'): the task id of the
\* first marked row, Null when no row is marked.
selectedRow(rows) ==
    IF \E i \in DOMAIN rows : rows[i].selected
    THEN rows[CHOOSE i \in DOMAIN rows :
                rows[i].selected /\ \A j \in 1..(i - 1) : ~rows[j].selected].task.id
    ELSE Null

RowIds == { table[i].task.id : i \in DOMAIN table }

\* tasks.findIndex(t => t.id === taskId): 0 stands for -1.
FindIndex(list, id, numeric) ==
    IF numeric /\ \E i \in DOMAIN list : list[i].id = id
    THEN CHOOSE i \in DOMAIN list :
            list[i].id = id /\ \A j \in 1..(i - 1) : list[j].id # id
    ELSE 0

\* The canvases of the dashboard, by the ids of their elements.
Canvases == {"projectTaskChart", "userTaskChart"}

\* initDashboard up to the return of init(): no chart yet, both canvases in
\* the document, initProjectTaskChart() and initUserTaskChart() each
\* awaiting their data, no resize timer.
InitCharts ==
    /\ chartInstances = [c \in Canvases |-> Null]
    /\ liveCharts = [c \in Canvases |-> {}]
    /\ chartsCreated = [c \in Canvases |-> 0]
    /\ chartFetches = [c \in Canvases |-> 1]
    /\ canvasPresent = [c \in Canvases |-> TRUE]
    /\ resizeTimer = FALSE

DefaultFilters ==
    [ status |-> "all", assignee |-> "all", project |-> "all",
      priority |-> "all", text |-> "" ]

\* The state initTaskManagement leaves: empty cache, nothing selected, and the
\* first loadTasks in flight.
InitController ==
    /\ variant \in Variants
    /\ tasks = <<>>
    /\ tasksIsArray = TRUE
    /\ currentSortField = "title"
    /\ currentSortDirection = "asc"
    /\ selectedTaskId = Null
    /\ detailVisible = FALSE
    /\ table = <<>>
    /\ emptyState = FALSE
    /\ tasksCount = 0
    /\ panelDisplayed = FALSE
    /\ detailTask = Null
    /\ commentsOf = Null
    /\ filters = DefaultFilters
    /\ searchTimer = 0
    /\ modalOpen = FALSE
    /\ comments = {}
    /\ commentInput = StrEmpty
    /\ formTaskId = Null
    /\ formSource = Null
    /\ pending = SetToBag({TasksRequest(DefaultFilters)})
    /\ alertMsg = NoAlert
    /\ lastOp = "init"

\* No text is returned before formatDate is called.
NotFormatted == <<>>

\* The controller as constructed, formatDate not having been called.
Init ==
    /\ InitController
    /\ capacity = MaxPending
    /\ dateString = DateValue(FALSE, <<>>)
    /\ formatted = NotFormatted
    /\ InitCharts

\* ----------------------------------------------------------------- loading

\* resetFilters(): every control back to its default, then loadTasks().
resetFilters ==
    /\ ~modalOpen
    /\ Room(pending, 1)
    /\ filters' = DefaultFilters
    /\ pending' = Issue(pending, {TasksRequest(DefaultFilters)})
    /\ alertMsg' = NoAlert
    /\ lastOp' = "resetFilters"
    /\ UNCHANGED << variant, capacity, dashVars, dateVars, commentVars, cacheVars, sortVars, selectionVars, tableVars,
                    panelVars, searchTimer, formVars >>

\* A change event of a filter dropdown that now holds `value`: loadTasks()
\* builds its query from the controls and sends the request.
filterChange(name, value) ==
    /\ ~modalOpen
    /\ value # filters[name]
    /\ Room(pending, 1)
    /\ filters' = [filters EXCEPT ![name] = value]
    /\ pending' = Issue(pending, {TasksRequest(filters')})
    /\ alertMsg' = NoAlert
    /\ lastOp' = "loadTasks"
    /\ UNCHANGED << variant, capacity, dashVars, dateVars, commentVars, cacheVars, sortVars, selectionVars, tableVars,
                    panelVars, searchTimer, formVars >>

\* A clearTimeout that cancels nothing.
clearTimeoutNothing(timers) == timers

\* clearTimeout(timeout) on the timers pending: the timer set last, if it has
\* not fired, is cancelled.
clearTimeout(timers) == IF timers > 0 THEN timers - 1 ELSE 0

\* An input event of #textSearch: debounce(loadTasks, 300) clears the pending
\* timer and sets a new one.
textSearchInput(text) ==
    /\ ~modalOpen
    /\ text # filters.text
    /\ filters' = [filters EXCEPT !.text = text]
    /\ searchTimer' = clearTimeout(searchTimer) + 1
    /\ alertMsg' = NoAlert
    /\ lastOp' = "textSearch.input"
    /\ UNCHANGED << variant, capacity, dashVars, dateVars, commentVars, cacheVars, sortVars, selectionVars, tableVars,
                    panelVars, formVars, pending >>

\* The debounce timer fires: loadTasks().
debounceFire ==
    /\ searchTimer > 0
    /\ Room(pending, 1)
    /\ searchTimer' = searchTimer - 1
    /\ pending' = Issue(pending, {TasksRequest(filters)})
    /\ alertMsg' = NoAlert
    /\ lastOp' = "textSearch.fire"
    /\ UNCHANGED << variant, capacity, dashVars, dateVars, commentVars, cacheVars, sortVars, selectionVars, tableVars,
                    panelVars, filters, formVars >>

\* A success continuation that leaves out sortTasks().
loadTasksThenUnsorted(req, list) ==
    /\ req \in InFlight("tasks")
    /\ pending' = Settle(pending, req)
    /\ tasks' = list
    /\ tasksIsArray' = TRUE
    /\ table' = renderTasksTable(tasks', selectedTaskId, detailVisible)
    /\ emptyState' = (Len(tasks') = 0)
    /\ tasksCount' = Len(tasks')
    /\ alertMsg' = NoAlert
    /\ lastOp' = "loadTasks.then"
    /\ UNCHANGED << variant, capacity, dashVars, dateVars, commentVars, sortVars, selectionVars, panelVars, filterVars, formVars >>

\* A loadTasks that drops the response of a request built from other filter
\* values than the current ones.
loadTasksThenLatestOnly(req, list) ==
    /\ req \in InFlight("tasks")
    /\ pending' = Settle(pending, req)
    /\ IF req.query = BuildParams(filters)
       THEN /\ tasks' = sortTasks(list, currentSortField, currentSortDirection)
            /\ tasksIsArray' = TRUE
            /\ table' = renderTasksTable(tasks', selectedTaskId, detailVisible)
            /\ emptyState' = (Len(tasks') = 0)
            /\ tasksCount' = Len(tasks')
       ELSE UNCHANGED << cacheVars, tableVars >>
    /\ alertMsg' = NoAlert
    /\ lastOp' = "loadTasks.then"
    /\ UNCHANGED << variant, capacity, dashVars, dateVars, commentVars, sortVars, selectionVars, panelVars, filterVars, formVars >>

\* .then(data => { tasks = data; sortTasks(); renderTasksTable(tasks); })
loadTasksThen(req, list) ==
    /\ req \in InFlight("tasks")
    /\ pending' = Settle(pending, req)
    /\ tasks' = sortTasks(list, currentSortField, currentSortDirection)
    /\ tasksIsArray' = TRUE
    /\ table' = renderTasksTable(tasks', selectedTaskId, detailVisible)
    /\ emptyState' = (Len(tasks') = 0)
    /\ tasksCount' = Len(tasks')
    /\ alertMsg' = NoAlert
    /\ lastOp' = "loadTasks.then"
    /\ UNCHANGED << variant, capacity, dashVars, dateVars, commentVars, sortVars, selectionVars, panelVars, filterVars, formVars >>

\* task_manage.js: a response that is not ok throws, and .catch alerts and
\* renders the empty state; the cache keeps what it held.
loadTasksCatch(req, outcome) ==
    /\ variant = "main"
    /\ req \in InFlight("tasks")
    /\ outcome # "ok"
    /\ pending' = Settle(pending, req)
    /\ table' = renderTasksTable(<<>>, selectedTaskId, detailVisible)
    /\ emptyState' = TRUE
    /\ tasksCount' = 0
    /\ alertMsg' = "Failed to load tasks. Please try again later."
    /\ lastOp' = "loadTasks.catch"
    /\ UNCHANGED << variant, capacity, dashVars, dateVars, commentVars, cacheVars, sortVars, selectionVars, panelVars,
                    filterVars, formVars >>

\* task_manage copy.js: response.ok is not read. A JSON error body becomes
\* tasks, and sortTasks() throws on it; another body fails to parse; a transport
\* failure rejects. In all three .catch alerts and renders nothing.
loadTasksCatchCopy(req, outcome) ==
    /\ variant = "copy"
    /\ req \in InFlight("tasks")
    /\ outcome # "ok"
    /\ pending' = Settle(pending, req)
    /\ IF outcome = "http_json"
       THEN tasks' = <<>> /\ tasksIsArray' = FALSE
       ELSE UNCHANGED cacheVars
    /\ alertMsg' = "Failed to load tasks"
    /\ lastOp' = "loadTasks.catch"
    /\ UNCHANGED << variant, capacity, dashVars, dateVars, commentVars, sortVars, selectionVars, tableVars, panelVars,
                    filterVars, formVars >>

\* ----------------------------------------------------------------- sorting

\* The click listener of a th[data-sort]: toggle or reset the direction,
\* sortTasks(), renderTasksTable(tasks). On a cache that is no array
\* tasks.sort throws after the sort state is written.
sortHeaderClick(field) ==
    /\ ~modalOpen
    /\ currentSortDirection' =
          IF field = currentSortField
          THEN (IF currentSortDirection = "asc" THEN "desc" ELSE "asc")
          ELSE "asc"
    /\ currentSortField' = field
    /\ IF tasksIsArray
       THEN /\ tasks' = sortTasks(tasks, field, currentSortDirection')
            /\ table' = renderTasksTable(tasks', selectedTaskId, detailVisible)
            /\ emptyState' = (Len(tasks') = 0)
            /\ tasksCount' = Len(tasks')
            /\ lastOp' = "sort.click"
       ELSE /\ UNCHANGED << tasks, tableVars >>
            /\ lastOp' = "sort.click.throws"
    /\ alertMsg' = NoAlert
    /\ UNCHANGED << variant, capacity, dashVars, dateVars, commentVars, tasksIsArray, selectionVars, panelVars, filterVars,
                    formVars, pending >>

\* --------------------------------------------------------------- selection

\* r.classList.remove('selected') on every row, then add it to the clicked row.
MarkOnly(rows, id) ==
    [ i \in DOMAIN rows |-> [rows[i] EXCEPT !.selected = (rows[i].task.id = id)] ]

\* classList.add / classList.remove('selected') on the row of a task.
SetMark(rows, id, on) ==
    [ i \in DOMAIN rows |->
        IF rows[i].task.id = id THEN [rows[i] EXCEPT !.selected = on] ELSE rows[i] ]

\* A row click that shows the panel of the selected task instead of toggling it.
rowClickShow(id, bag) ==
    /\ IF selectedTaskId = id
       THEN /\ detailVisible' = TRUE
            /\ selectedTaskId' = selectedTaskId
            /\ panelDisplayed' = TRUE
            /\ table' = SetMark(table, id, TRUE)
            /\ pending' = bag
            /\ lastOp' = "rowClick.toggle"
       ELSE /\ Room(bag, 2)
            /\ selectedTaskId' = id
            /\ detailVisible' = TRUE
            /\ panelDisplayed' = TRUE
            /\ table' = MarkOnly(table, id)
            /\ pending' = Issue(bag, {DetailsRequest(id, TRUE), CommentsRequest(id)})
            /\ lastOp' = "rowClick.select"
    /\ alertMsg' = NoAlert
    /\ UNCHANGED << variant, capacity, dashVars, dateVars, commentVars, cacheVars, sortVars, emptyState, tasksCount,
                    detailTask, commentsOf, filterVars, formVars >>

\* task_manage.js handleTaskRowClick on a row of task id, with `bag` in flight:
\* the selected task toggles the panel, another task is selected and fetched.
rowClick(id, bag) ==
    /\ IF selectedTaskId = id
       THEN /\ detailVisible' = ~detailVisible
            /\ selectedTaskId' = selectedTaskId
            /\ panelDisplayed' = detailVisible'
            /\ table' = SetMark(table, id, detailVisible')
            /\ pending' = bag
            /\ lastOp' = "rowClick.toggle"
       ELSE /\ Room(bag, 2)
            /\ selectedTaskId' = id
            /\ detailVisible' = TRUE
            /\ panelDisplayed' = TRUE
            /\ table' = MarkOnly(table, id)
            /\ pending' = Issue(bag, {DetailsRequest(id, TRUE), CommentsRequest(id)})
            /\ lastOp' = "rowClick.select"
    /\ alertMsg' = NoAlert
    /\ UNCHANGED << variant, capacity, dashVars, dateVars, commentVars, cacheVars, sortVars, emptyState, tasksCount,
                    detailTask, commentsOf, filterVars, formVars >>

\* task_manage copy.js handleTaskRowClick: as above, and showing the panel of
\* the selected task again fetches its details and comments again.
rowClickCopy(id, bag) ==
    /\ IF selectedTaskId = id
       THEN /\ detailVisible' = ~detailVisible
            /\ selectedTaskId' = selectedTaskId
            /\ panelDisplayed' = detailVisible'
            /\ table' = SetMark(table, id, detailVisible')
            /\ IF detailVisible'
               THEN /\ Room(bag, 2)
                    /\ pending' =
                          Issue(bag, {DetailsRequest(id, TRUE), CommentsRequest(id)})
               ELSE pending' = bag
            /\ lastOp' = "rowClick.toggle"
       ELSE /\ Room(bag, 2)
            /\ selectedTaskId' = id
            /\ detailVisible' = TRUE
            /\ panelDisplayed' = TRUE
            /\ table' = MarkOnly(table, id)
            /\ pending' = Issue(bag, {DetailsRequest(id, TRUE), CommentsRequest(id)})
            /\ lastOp' = "rowClick.select"
    /\ alertMsg' = NoAlert
    /\ UNCHANGED << variant, capacity, dashVars, dateVars, commentVars, cacheVars, sortVars, emptyState, tasksCount,
                    detailTask, commentsOf, filterVars, formVars >>

\* A click on the row of task id, outside its buttons.
handleTaskRowClick(id) ==
    /\ ~modalOpen
    /\ id \in RowIds
    /\ IF variant = "main" THEN rowClick(id, pending) ELSE rowClickCopy(id, pending)

\* A closeTaskDetail() that clears the selection and leaves the visibility
\* flag as it is.
closeTaskDetailKeepsFlag ==
    /\ ~modalOpen
    /\ panelDisplayed
    /\ panelDisplayed' = FALSE
    /\ table' = IF selectedTaskId # Null THEN SetMark(table, selectedTaskId, FALSE) ELSE table
    /\ selectedTaskId' = Null
    /\ alertMsg' = NoAlert
    /\ lastOp' = "closeTaskDetail"
    /\ UNCHANGED << variant, capacity, dashVars, dateVars, commentVars, cacheVars, sortVars, emptyState, tasksCount,
                    detailVisible, detailTask, commentsOf, filterVars, formVars, pending >>

\* closeTaskDetail(): hide the panel, unmark the row of the selected task,
\* clear the selection.
closeTaskDetail ==
    /\ ~modalOpen
    /\ panelDisplayed
    /\ panelDisplayed' = FALSE
    /\ table' = IF selectedTaskId # Null THEN SetMark(table, selectedTaskId, FALSE) ELSE table
    /\ detailVisible' = FALSE
    /\ selectedTaskId' = Null
    /\ alertMsg' = NoAlert
    /\ lastOp' = "closeTaskDetail"
    /\ UNCHANGED << variant, capacity, dashVars, dateVars, commentVars, cacheVars, sortVars, emptyState, tasksCount,
                    detailTask, commentsOf, filterVars, formVars, pending >>

\* loadTaskDetails .then(task => ...): the cached copy of the task, found by
\* strict equality with the id handed over, is replaced; renderTaskDetails
\* displays the panel. On a cache that is no array findIndex throws and
\* .catch alerts.
loadTaskDetailsThen(req, task) ==
    /\ req \in InFlight("details")
    /\ task.id = req.id
    /\ pending' = Settle(pending, req)
    /\ IF tasksIsArray
       THEN /\ tasks' =
                  IF FindIndex(tasks, req.id, req.numeric) # 0
                  THEN [tasks EXCEPT ![FindIndex(tasks, req.id, req.numeric)] = task]
                  ELSE tasks
            /\ panelDisplayed' = TRUE
            /\ detailTask' = task.id
            /\ alertMsg' = NoAlert
            /\ lastOp' = "loadTaskDetails.then"
       ELSE /\ UNCHANGED << tasks, panelDisplayed, detailTask >>
            /\ alertMsg' = "Failed to load task details"
            /\ lastOp' = "loadTaskDetails.throws"
    /\ UNCHANGED << variant, capacity, dashVars, dateVars, commentVars, tasksIsArray, sortVars, selectionVars, tableVars,
                    commentsOf, filterVars, formVars >>

\* loadTaskDetails .catch
loadTaskDetailsCatch(req) ==
    /\ req \in InFlight("details")
    /\ pending' = Settle(pending, req)
    /\ alertMsg' = "Failed to load task details"
    /\ lastOp' = "loadTaskDetails.catch"
    /\ UNCHANGED << variant, capacity, dashVars, dateVars, commentVars, cacheVars, sortVars, selectionVars, tableVars,
                    panelVars, filterVars, formVars >>

\* loadComments .then(comments => renderComments(comments)): a card with a
\* delete button per comment of the response.
loadCommentsThen(req, list) ==
    /\ req \in InFlight("comments")
    /\ pending' = Settle(pending, req)
    /\ commentsOf' = req.id
    /\ comments' = list
    /\ alertMsg' = NoAlert
    /\ lastOp' = "loadComments.then"
    /\ UNCHANGED << variant, capacity, dashVars, dateVars, commentInput, cacheVars, sortVars, selectionVars, tableVars,
                    panelDisplayed, detailTask, filterVars, formVars >>

\* loadComments on a response that is not ok or no JSON, or none: .catch
\* alerts one of two fixed texts, by whether the message of the error
\* includes 'Authentication'.
loadCommentsCatch(req, authentication) ==
    /\ req \in InFlight("comments")
    /\ pending' = Settle(pending, req)
    /\ alertMsg' = IF authentication
                   THEN "Authentication required. Please login."
                   ELSE "Failed to load comments. Please try again later."
    /\ lastOp' = "loadComments.catch"
    /\ UNCHANGED << variant, capacity, dashVars, dateVars, commentVars, cacheVars, sortVars, selectionVars, tableVars,
                    panelVars, filterVars, formVars >>

\* ---------------------------------------------------------------- comments

\* The user types into #commentInput.
commentInputChange(text) ==
    /\ ~modalOpen
    /\ panelDisplayed
    /\ text # commentInput
    /\ commentInput' = text
    /\ alertMsg' = NoAlert
    /\ lastOp' = "commentInput.input"
    /\ UNCHANGED << variant, capacity, dashVars, dateVars, comments, cacheVars, sortVars, selectionVars,
                    tableVars, panelVars, filterVars, formVars, pending >>

\* The submit of #addCommentForm: addComment() returns on a text that is
\* empty once trimmed and when the table has no marked row; otherwise it
\* posts the comment to the task of the marked row.
addComment ==
    /\ ~modalOpen
    /\ panelDisplayed
    /\ IF Trim(commentInput) = StrEmpty
       THEN /\ UNCHANGED pending
            /\ lastOp' = "addComment.empty"
       ELSE IF selectedRow(table) = Null
       THEN /\ UNCHANGED pending
            /\ lastOp' = "addComment.norow"
       ELSE /\ Room(pending, 1)
            /\ pending' = Issue(pending, {CommentPostRequest(selectedRow(table))})
            /\ lastOp' = "addComment"
    /\ alertMsg' = NoAlert
    /\ UNCHANGED << variant, capacity, dashVars, dateVars, commentVars, cacheVars, sortVars, selectionVars,
                    tableVars, panelVars, filterVars, formVars >>

\* addComment .then(response => ...) on response.ok: the input is cleared
\* and loadComments(taskId) fetches the comments of the task again.
addCommentThen(req) ==
    /\ req \in InFlight("comment.post")
    /\ pending' = Issue(Settle(pending, req), {CommentsRequest(req.id)})
    /\ commentInput' = StrEmpty
    /\ alertMsg' = NoAlert
    /\ lastOp' = "addComment.then"
    /\ UNCHANGED << variant, capacity, dashVars, dateVars, comments, cacheVars, sortVars, selectionVars,
                    tableVars, panelVars, filterVars, formVars >>

\* addComment .catch: whatever the error, the same text is alerted.
addCommentCatch(req, outcome) ==
    /\ req \in InFlight("comment.post")
    /\ outcome # "ok"
    /\ pending' = Settle(pending, req)
    /\ alertMsg' = "Failed to add comment. Please try again later."
    /\ lastOp' = "addComment.catch"
    /\ UNCHANGED << variant, capacity, dashVars, dateVars, commentVars, cacheVars, sortVars, selectionVars,
                    tableVars, panelVars, filterVars, formVars >>

\* A deleteComment that sends the DELETE without waiting for the answer to
\* confirm().
deleteCommentUnasked(commentId, confirmed) ==
    /\ ~modalOpen
    /\ panelDisplayed
    /\ commentId \in comments
    /\ Room(pending, 1)
    /\ pending' = Issue(pending, {CommentDeleteRequest(commentId)})
    /\ lastOp' = IF confirmed THEN "deleteComment" ELSE "deleteComment.declined"
    /\ alertMsg' = NoAlert
    /\ UNCHANGED << variant, capacity, dashVars, dateVars, commentVars, cacheVars, sortVars, selectionVars,
                    tableVars, panelVars, filterVars, formVars >>

\* A click on the delete button of a comment card: deleteComment(commentId)
\* asks for confirmation and, given it, sends the DELETE.
deleteComment(commentId, confirmed) ==
    /\ ~modalOpen
    /\ panelDisplayed
    /\ commentId \in comments
    /\ IF confirmed
       THEN /\ Room(pending, 1)
            /\ pending' = Issue(pending, {CommentDeleteRequest(commentId)})
            /\ lastOp' = "deleteComment"
       ELSE /\ UNCHANGED pending
            /\ lastOp' = "deleteComment.declined"
    /\ alertMsg' = NoAlert
    /\ UNCHANGED << variant, capacity, dashVars, dateVars, commentVars, cacheVars, sortVars, selectionVars,
                    tableVars, panelVars, filterVars, formVars >>

\* deleteComment .then(response => ...) on response.ok: the comments of the
\* task of the marked row, if there is one, are fetched again.
deleteCommentThen(req) ==
    /\ req \in InFlight("comment.delete")
    /\ IF selectedRow(table) # Null
       THEN /\ pending' = Issue(Settle(pending, req),
                                {CommentsRequest(selectedRow(table))})
            /\ lastOp' = "deleteComment.then"
       ELSE /\ pending' = Settle(pending, req)
            /\ lastOp' = "deleteComment.then.norow"
    /\ alertMsg' = NoAlert
    /\ UNCHANGED << variant, capacity, dashVars, dateVars, commentVars, cacheVars, sortVars, selectionVars,
                    tableVars, panelVars, filterVars, formVars >>

\* deleteComment .catch: whatever the error, the same text is alerted.
deleteCommentCatch(req, outcome) ==
    /\ req \in InFlight("comment.delete")
    /\ outcome # "ok"
    /\ pending' = Settle(pending, req)
    /\ alertMsg' = "Failed to delete comment. Please try again later."
    /\ lastOp' = "deleteComment.catch"
    /\ UNCHANGED << variant, capacity, dashVars, dateVars, commentVars, cacheVars, sortVars, selectionVars,
                    tableVars, panelVars, filterVars, formVars >>

\* ------------------------------------------------------------------ delete

\* A click on the delete button of a row: deleteTask(taskId) asks for
\* confirmation and, given it, sends the DELETE.
deleteTask(id, confirmed) ==
    /\ variant = "copy"
    /\ ~modalOpen
    /\ id \in RowIds
    /\ IF confirmed
       THEN /\ Room(pending, 1)
            /\ pending' = Issue(pending, {DeleteRequest(id)})
            /\ lastOp' = "deleteTask"
       ELSE /\ UNCHANGED pending
            /\ lastOp' = "deleteTask.declined"
    /\ alertMsg' = NoAlert
    /\ UNCHANGED << variant, capacity, dashVars, dateVars, commentVars, cacheVars, sortVars, selectionVars, tableVars,
                    panelVars, filterVars, formVars >>

\* row.remove() on the first row of the task.
RemoveRow(rows, id) ==
    IF \E i \in DOMAIN rows : rows[i].task.id = id
    THEN LET k == CHOOSE i \in DOMAIN rows :
                    rows[i].task.id = id /\ \A j \in 1..(i - 1) : rows[j].task.id # id
         IN  SubSeq(rows, 1, k - 1) \o SubSeq(rows, k + 1, Len(rows))
    ELSE rows

\* A deletion that removes the row and leaves the selection as it is.
deleteTaskThenKeep(req) ==
    /\ req \in InFlight("delete")
    /\ pending' = Settle(pending, req)
    /\ table' = RemoveRow(table, req.id)
    /\ lastOp' = IF selectedTaskId = req.id
                 THEN "deleteTask.then.selected" ELSE "deleteTask.then.other"
    /\ alertMsg' = "Task deleted successfully"
    /\ UNCHANGED << variant, capacity, dashVars, dateVars, commentVars, cacheVars, sortVars, selectionVars, emptyState, tasksCount,
                    panelVars, filterVars, formVars >>

\* deleteTask .then on a response that is ok: the row leaves the table; when
\* the task is the selected one the selection is cleared and closeTaskDetail()
\* hides the panel.
deleteTaskThen(req) ==
    /\ req \in InFlight("delete")
    /\ pending' = Settle(pending, req)
    /\ table' = RemoveRow(table, req.id)
    /\ IF selectedTaskId = req.id
       THEN /\ selectedTaskId' = Null
            /\ detailVisible' = FALSE
            /\ panelDisplayed' = FALSE
            /\ lastOp' = "deleteTask.then.selected"
       ELSE /\ UNCHANGED << selectionVars, panelDisplayed >>
            /\ lastOp' = "deleteTask.then.other"
    /\ alertMsg' = "Task deleted successfully"
    /\ UNCHANGED << variant, capacity, dashVars, dateVars, commentVars, cacheVars, sortVars, emptyState, tasksCount,
                    detailTask, commentsOf, filterVars, formVars >>

\* deleteTask on a response that is not ok, or none: the alert carries the
\* error of the JSON body, the parse error of another body, or the transport
\* error.
deleteTaskCatch(req, outcome) ==
    /\ req \in InFlight("delete")
    /\ outcome # "ok"
    /\ pending' = Settle(pending, req)
    /\ alertMsg' =
          CASE outcome = "http_json" -> "server error message"
            [] outcome = "http_text" -> "JSON parse error message"
            [] OTHER -> "transport error message"
    /\ lastOp' = "deleteTask.catch"
    /\ UNCHANGED << variant, capacity, dashVars, dateVars, commentVars, cacheVars, sortVars, selectionVars, tableVars,
                    panelVars, filterVars, formVars >>

\* ------------------------------------------------------------ modal, form

\* openTaskModal(taskId) on the form as it is: the form is reset, the hidden
\* id field takes taskId, and in edit mode the task is fetched to fill it.
\* The result is <<formTaskId, formSource, requests issued>>.
openTaskModal(form, taskId) ==
    IF taskId # Null
    THEN << taskId, Null, form[3] (+) SetToBag({ModalRequest(taskId)}) >>
    ELSE << Null, Null, form[3] >>

\* A click on #createTaskBtn: openTaskModal().
createTaskClick ==
    /\ ~modalOpen
    /\ modalOpen' = TRUE
    /\ formTaskId' = openTaskModal(<<formTaskId, formSource, pending>>, Null)[1]
    /\ formSource' = openTaskModal(<<formTaskId, formSource, pending>>, Null)[2]
    /\ pending' = openTaskModal(<<formTaskId, formSource, pending>>, Null)[3]
    /\ alertMsg' = NoAlert
    /\ lastOp' = "openTaskModal.create"
    /\ UNCHANGED << variant, capacity, dashVars, dateVars, commentVars, cacheVars, sortVars, selectionVars, tableVars,
                    panelVars, filterVars >>

\* A click on the edit button of a row (the listener of the copy alone):
\* openTaskModal(btn.dataset.taskId).
rowEditClick(id) ==
    /\ variant = "copy"
    /\ ~modalOpen
    /\ id \in RowIds
    /\ Room(pending, 1)
    /\ modalOpen' = TRUE
    /\ formTaskId' = openTaskModal(<<formTaskId, formSource, pending>>, id)[1]
    /\ formSource' = openTaskModal(<<formTaskId, formSource, pending>>, id)[2]
    /\ pending' = openTaskModal(<<formTaskId, formSource, pending>>, id)[3]
    /\ alertMsg' = NoAlert
    /\ lastOp' = "openTaskModal.row"
    /\ UNCHANGED << variant, capacity, dashVars, dateVars, commentVars, cacheVars, sortVars, selectionVars, tableVars,
                    panelVars, filterVars >>

\* A click on #editTaskBtn of the detail panel. The listener of
\* setupEventListeners runs openTaskModal(selectedTaskId); the onclick that
\* renderTaskDetails set, if any, then runs openTaskModal(task.id).
panelEditClick ==
    /\ ~modalOpen
    /\ panelDisplayed
    /\ LET first == openTaskModal(<<formTaskId, formSource, pending>>, selectedTaskId)
           last  == IF detailTask # Null THEN openTaskModal(first, detailTask) ELSE first
       IN  /\ BagCardinality(last[3]) <= capacity
           /\ formTaskId' = last[1]
           /\ formSource' = last[2]
           /\ pending' = last[3]
    /\ modalOpen' = TRUE
    /\ alertMsg' = NoAlert
    /\ lastOp' = "openTaskModal.panel"
    /\ UNCHANGED << variant, capacity, dashVars, dateVars, commentVars, cacheVars, sortVars, selectionVars, tableVars,
                    panelVars, filterVars >>

\* openTaskModal .then(task => ...): the form fields take the task's values.
openTaskModalThen(req) ==
    /\ req \in InFlight("modal")
    /\ pending' = Settle(pending, req)
    /\ formSource' = req.id
    /\ alertMsg' = NoAlert
    /\ lastOp' = "openTaskModal.then"
    /\ UNCHANGED << variant, capacity, dashVars, dateVars, commentVars, cacheVars, sortVars, selectionVars, tableVars,
                    panelVars, filterVars, modalOpen, formTaskId >>

\* openTaskModal .catch(handleError('Failed to load task details'))
openTaskModalCatch(req) ==
    /\ req \in InFlight("modal")
    /\ pending' = Settle(pending, req)
    /\ alertMsg' = "Failed to load task details"
    /\ lastOp' = "openTaskModal.catch"
    /\ UNCHANGED << variant, capacity, dashVars, dateVars, commentVars, cacheVars, sortVars, selectionVars, tableVars,
                    panelVars, filterVars, formVars >>

\* A click on #cancelbtn: closeModal() hides the modal; the form keeps its values.
closeModal ==
    /\ modalOpen
    /\ modalOpen' = FALSE
    /\ alertMsg' = NoAlert
    /\ lastOp' = "closeModal"
    /\ UNCHANGED << variant, capacity, dashVars, dateVars, commentVars, cacheVars, sortVars, selectionVars, tableVars,
                    panelVars, filterVars, formTaskId, formSource, pending >>

\* A click on #submitTaskForm, the project field chosen or not: PUT when the
\* form carries an id, POST when it does not. The copy refuses a form without
\* a project; the main revision sends it.
handleTaskSubmission(projectChosen) ==
    /\ modalOpen
    /\ IF variant = "copy" /\ ~projectChosen
       THEN /\ UNCHANGED pending
            /\ alertMsg' = "Please select a project"
            /\ lastOp' = "submit.rejected"
       ELSE /\ Room(pending, 1)
            /\ pending' = Issue(pending, {SubmitRequest(formTaskId)})
            /\ alertMsg' = NoAlert
            /\ lastOp' = IF formTaskId # Null THEN "submit.put" ELSE "submit.post"
    /\ UNCHANGED << variant, capacity, dashVars, dateVars, commentVars, cacheVars, sortVars, selectionVars, tableVars,
                    panelVars, filterVars, formVars >>

\* handleTaskSubmission .then(updatedTask => ...): closeModal(), loadTasks(),
\* then loadTaskDetails(taskId) with the id string of the form for an edit,
\* or the 300 ms timer that clicks the row of the new task for a create.
handleTaskSubmissionThen(req, newId) ==
    /\ req \in InFlight("submit")
    /\ Room(Settle(pending, req), 2)
    /\ modalOpen' = FALSE
    /\ IF req.id # Null
       THEN /\ pending' = Issue(Settle(pending, req),
                                {TasksRequest(filters)})
                          (+) SetToBag({DetailsRequest(req.id, FALSE)})
            /\ alertMsg' = "Task updated successfully!"
            /\ lastOp' = "submit.then.put"
       ELSE /\ pending' = Issue(Settle(pending, req),
                                {TasksRequest(filters)})
                          (+) SetToBag({SelectTimer(newId)})
            /\ alertMsg' = "Task created successfully!"
            /\ lastOp' = "submit.then.post"
    /\ UNCHANGED << variant, capacity, dashVars, dateVars, commentVars, cacheVars, sortVars, selectionVars, tableVars,
                    panelVars, filterVars, formTaskId, formSource >>

\* handleTaskSubmission .catch
handleTaskSubmissionCatch(req, outcome) ==
    /\ req \in InFlight("submit")
    /\ outcome # "ok"
    /\ pending' = Settle(pending, req)
    /\ alertMsg' =
          IF req.id # Null
          THEN CASE outcome = "http_json" -> "Failed to update task: server error message"
                 [] outcome = "http_text" -> "Failed to update task: JSON parse error message"
                 [] OTHER -> "Failed to update task: transport error message"
          ELSE CASE outcome = "http_json" -> "Failed to create task: server error message"
                 [] outcome = "http_text" -> "Failed to create task: JSON parse error message"
                 [] OTHER -> "Failed to create task: transport error message"
    /\ lastOp' = "submit.catch"
    /\ UNCHANGED << variant, capacity, dashVars, dateVars, commentVars, cacheVars, sortVars, selectionVars, tableVars,
                    panelVars, filterVars, formVars >>

\* The timer of a create fires: the row of the new task, if the table has
\* one, is clicked.
selectTimerFire(req) ==
    /\ req \in InFlight("timer")
    /\ IF req.id \in RowIds
       THEN IF variant = "main"
            THEN rowClick(req.id, Settle(pending, req))
            ELSE rowClickCopy(req.id, Settle(pending, req))
       ELSE /\ pending' = Settle(pending, req)
            /\ alertMsg' = NoAlert
            /\ lastOp' = "timer.norow"
            /\ UNCHANGED << variant, capacity, dashVars, dateVars, commentVars, cacheVars, sortVars, selectionVars, tableVars,
                            panelVars, filterVars, formVars >>

\* ---------------------------------------------------------- specifications

\* The header the user clicks in the controller specification.
CtlSortFields == {"title"}

\* The list, the selection, the detail panel and the deletion of tasks.

Next ==
    \/ resetFilters
    \/ \E req \in InFlight("tasks"), list \in CtlLists : loadTasksThen(req, list)
    \/ \E req \in InFlight("tasks"), outcome \in Outcomes : loadTasksCatch(req, outcome)
    \/ \E req \in InFlight("tasks"), outcome \in Outcomes : loadTasksCatchCopy(req, outcome)
    \/ \E field \in CtlSortFields : sortHeaderClick(field)
    \/ \E id \in TaskIds : handleTaskRowClick(id)
    \/ closeTaskDetail
    \/ \E req \in InFlight("details"), task \in CtlTasks : loadTaskDetailsThen(req, task)
    \/ \E req \in InFlight("details") : loadTaskDetailsCatch(req)
    \/ \E req \in InFlight("comments") : loadCommentsThen(req, {})
    \/ \E req \in InFlight("comments"), authentication \in BOOLEAN :
          loadCommentsCatch(req, authentication)
    \/ \E id \in TaskIds, confirmed \in BOOLEAN : deleteTask(id, confirmed)
    \/ \E req \in InFlight("delete") : deleteTaskThen(req)
    \/ \E req \in InFlight("delete"), outcome \in Outcomes : deleteTaskCatch(req, outcome)

Spec == Init /\ [][Next]_vars

\* The sorting of the controller on task lists that differ in every sort key.
NextSort ==
    \/ resetFilters
    \/ \E req \in InFlight("tasks"), list \in SortLists : loadTasksThen(req, list)
    \/ \E field \in SortFields : sortHeaderClick(field)

SpecSort == Init /\ [][NextSort]_vars

\* The values a filter control can hold, and the names of the dropdowns.
QueryValues == {"", "all", "7"}
QueryTexts == {"", "all", "a"}
FilterNames == {"status", "assignee", "project", "priority"}

\* The query building of loadTasks under every combination of filter values.
NextQuery ==
    \/ resetFilters
    \/ \E name \in FilterNames, value \in QueryValues : filterChange(name, value)
    \/ \E text \in QueryTexts : textSearchInput(text)
    \/ debounceFire
    \/ \E req \in InFlight("tasks") : loadTasksThen(req, <<>>)

SpecQuery == Init /\ [][NextQuery]_vars

\* The modal, the form and the mutations of the controller, on a backend that
\* answers every fetch of a list or a task.
NextForm ==
    \/ createTaskClick
    \/ \E id \in TaskIds : rowEditClick(id)
    \/ panelEditClick
    \/ \E req \in InFlight("modal") : openTaskModalThen(req)
    \/ \E req \in InFlight("modal") : openTaskModalCatch(req)
    \/ closeModal
    \/ \E projectChosen \in BOOLEAN : handleTaskSubmission(projectChosen)
    \/ \E req \in InFlight("submit"), newId \in TaskIds : handleTaskSubmissionThen(req, newId)
    \/ \E req \in InFlight("submit"), outcome \in Outcomes : handleTaskSubmissionCatch(req, outcome)
    \/ \E req \in InFlight("timer") : selectTimerFire(req)
    \/ \E req \in InFlight("tasks"), list \in FormLists : loadTasksThen(req, list)
    \/ \E id \in TaskIds : handleTaskRowClick(id)
    \/ \E req \in InFlight("details"), task \in FormTasks : loadTaskDetailsThen(req, task)
    \/ \E req \in InFlight("comments") : loadCommentsThen(req, {})
    \/ \E id \in TaskIds : deleteTask(id, TRUE)
    \/ \E req \in InFlight("delete") : deleteTaskThen(req)

SpecForm == Init /\ [][NextForm]_vars

\* ---------------------------------------------------------------- properties

\* The tasks a table shows, row by row.
RowTasks(rows) == [ i \in DOMAIN rows |-> rows[i].task ]

\* The ids of the tasks of a list.
IdsOf(list) == { list[i].id : i \in DOMAIN list }

\* The rows of the table that are marked selected.
MarkedRows == { i \in DOMAIN table : table[i].selected }

\* A list in the order of the comparator: no task before one it sorts after.
Ordered(list, field, direction) ==
    \A i \in 1..(Len(list) - 1) : Compare(list[i], list[i + 1], field, direction) <= 0

\* Two lists of the same tasks, in whatever order.
SameTasks(l1, l2) ==
    /\ Len(l1) = Len(l2)
    /\ { l1[i] : i \in DOMAIN l1 } = { l2[i] : i \in DOMAIN l2 }

\* The task-list requests a step sends.
IssuedTasksRequests ==
    { r \in BagToSet(pending') :
        r.kind = "tasks" /\ CopiesIn(r, pending') > CopiesIn(r, pending) }

\* The parameter names of a query.
ParamNames(query) == { query[i][1] : i \in DOMAIN query }

\* The control a query parameter is read from.
ControlOf(param) == IF param = "search_text" THEN "text" ELSE param

\* C1: selectedTaskId is null or the id of a task of the loaded in-memory
\* collection, in every reachable state.
C1_SelectedTaskIsLoaded ==
    selectedTaskId = Null \/ selectedTaskId \in IdsOf(tasks)

\* C2: a row click on the selected task negates detailVisible and leaves
\* selectedTaskId unchanged; a row click on any other task selects it and sets
\* detailVisible to true.
C2_RowClickTogglesOrSelects ==
    [][ \A id \in TaskIds :
          handleTaskRowClick(id) =>
            IF selectedTaskId = id
            THEN detailVisible' = ~detailVisible /\ selectedTaskId' = selectedTaskId
            ELSE selectedTaskId' = id /\ detailVisible' = TRUE ]_vars

\* A click on the selected task has just hidden its panel.
C2_Witness ==
    /\ lastOp = "rowClick.toggle"
    /\ selectedTaskId = 1
    /\ ~detailVisible
    /\ Len(table) = 2

\* C3: when deleteTask succeeds for the selected task, selectedTaskId becomes
\* null, detailVisible false and the detail panel hidden.
C3_DeleteSelectedClearsSelection ==
    [][ \A req \in InFlight("delete") :
          (deleteTaskThen(req) /\ selectedTaskId = req.id) =>
            (selectedTaskId' = Null /\ detailVisible' = FALSE /\ panelDisplayed' = FALSE) ]_vars

\* The selected task has just been deleted while another stays in the table.
C3_Witness ==
    /\ lastOp = "deleteTask.then.selected"
    /\ selectedTaskId = Null
    /\ ~detailVisible
    /\ ~panelDisplayed
    /\ Len(table) = 1

\* C4: at most one row of the table is marked selected, and a marked row is
\* the row of selectedTaskId while detailVisible is true.
C4_OneMarkedRow ==
    /\ Cardinality(MarkedRows) <= 1
    /\ \A i \in MarkedRows : table[i].task.id = selectedTaskId /\ detailVisible

\* A table of two rows re-rendered by a sort click with one of them marked.
C4_Witness ==
    /\ lastOp = "sort.click"
    /\ Len(table) = 2
    /\ Cardinality(MarkedRows) = 1

\* C5, as stated: the query of a task-list request has a parameter for a
\* filter, the search text included, exactly when the filter's value is
\* neither '' nor 'all'.
C5_ParamIffNotSentinel ==
    [][ \A r \in IssuedTasksRequests :
          \A param \in FilterNames \cup {"search_text"} :
            (param \in ParamNames(r.query)) <=>
                (filters'[ControlOf(param)] \notin {"", "all"}) ]_vars

\* C5, amended: the query has a parameter for a dropdown filter exactly when
\* its value is neither '' nor 'all', and a search_text parameter exactly when
\* the search text is not empty; each parameter occurs once and carries the
\* value of its control.
C5_ParamIffSet ==
    [][ \A r \in IssuedTasksRequests :
          /\ \A param \in FilterNames :
                (param \in ParamNames(r.query)) <=> (filters'[param] \notin {"", "all"})
          /\ ("search_text" \in ParamNames(r.query)) <=> (filters'.text # "")
          /\ Cardinality(ParamNames(r.query)) = Len(r.query)
          /\ \A i \in DOMAIN r.query :
                r.query[i][2] = filters'[ControlOf(r.query[i][1])] ]_vars

\* status 'all', project '7', the others empty: the request just sent asks
\* for project=7 and nothing else.
C5_Witness ==
    /\ lastOp = "loadTasks"
    /\ filters = [ status |-> "all", assignee |-> "", project |-> "7",
                   priority |-> "", text |-> "" ]
    /\ \E r \in InFlight("tasks") : r.query = << <<"project", "7">> >>

\* The orders C6 names.
PriorityRanking == << "urgent", "high", "medium", "low" >>
StatusRanking == << "todo", "in_progress", "review", "done" >>

\* The place of a value in a ranking.
PlaceIn(ranking, x) == CHOOSE i \in DOMAIN ranking : ranking[i] = x

\* A sequence of values that follows a ranking, or follows it backwards.
Follows(values, ranking) ==
    \A i \in 1..(Len(values) - 1) :
        PlaceIn(ranking, values[i]) <= PlaceIn(ranking, values[i + 1])
FollowsBackwards(values, ranking) ==
    \A i \in 1..(Len(values) - 1) :
        PlaceIn(ranking, values[i]) >= PlaceIn(ranking, values[i + 1])

PrioritiesOf(list) == [ i \in DOMAIN list |-> list[i].priority ]
StatusesOf(list) == [ i \in DOMAIN list |-> list[i].status ]

\* sortTasks() has just run: in a loadTasks response or a header click.
JustSorted == lastOp \in {"loadTasks.then", "sort.click"}

\* C6, as stated: after sortTasks by priority the list is in the order
\* urgent, high, medium, low, and by status in the order todo, in_progress,
\* review, done.
C6_RankOrder ==
    JustSorted =>
      /\ currentSortField = "priority" => Follows(PrioritiesOf(tasks), PriorityRanking)
      /\ currentSortField = "status" => Follows(StatusesOf(tasks), StatusRanking)

\* C6, amended: after sortTasks by priority the list is in the order urgent,
\* high, medium, low when the direction is ascending and in the reverse order
\* when it is descending; by status likewise for todo, in_progress, review,
\* done.
C6_RankOrderByDirection ==
    JustSorted =>
      /\ currentSortField = "priority" =>
            IF currentSortDirection = "asc"
            THEN Follows(PrioritiesOf(tasks), PriorityRanking)
            ELSE FollowsBackwards(PrioritiesOf(tasks), PriorityRanking)
      /\ currentSortField = "status" =>
            IF currentSortDirection = "asc"
            THEN Follows(StatusesOf(tasks), StatusRanking)
            ELSE FollowsBackwards(StatusesOf(tasks), StatusRanking)

\* A click on the priority header has put the four priorities in order.
C6_Witness ==
    /\ lastOp = "sort.click"
    /\ currentSortField = "priority"
    /\ currentSortDirection = "asc"
    /\ PrioritiesOf(tasks) = PriorityRanking

\* The list two clicks on the header of the current sort field leave: each
\* click flips the direction and sorts.
AfterTwoClicks(list, field, direction) ==
    sortTasks(sortTasks(list, field, IF direction = "asc" THEN "desc" ELSE "asc"),
              field, direction)

\* C7: two clicks in a row on the header of the current sort field leave the
\* task list in the order it had before them, ties included.
C7_TwoClicksRestoreOrder ==
    tasksIsArray => AfterTwoClicks(tasks, currentSortField, currentSortDirection) = tasks

\* C8: a successful loadTasks response replaces the task list by the returned
\* tasks in the order of the current sort field and direction, and the table
\* shows that list row by row, the count being its length.
C8_LoadReplacesSortsRenders ==
    [][ \A req \in InFlight("tasks"), list \in CtlLists :
          loadTasksThen(req, list) =>
            /\ SameTasks(tasks', list)
            /\ Ordered(tasks', currentSortField, currentSortDirection)
            /\ RowTasks(table') = tasks'
            /\ tasksCount' = Len(tasks') ]_vars

\* A response has just put two tasks of different titles in descending order.
C8_Witness ==
    /\ lastOp = "loadTasks.then"
    /\ currentSortDirection = "desc"
    /\ Len(tasks) = 2
    /\ tasks[1].title = StrB
    /\ tasks[2].title = StrA
    /\ RowTasks(table) = tasks
    /\ tasksCount = 2

\* C9: a loadTasks request that fails, by a response that is not ok or by the
\* transport, notifies the user and leaves the table in its empty state.
C9_FailureShowsEmptyState ==
    [][ \A req \in InFlight("tasks"), outcome \in Outcomes \ {"ok"} :
          (loadTasksCatch(req, outcome) \/ loadTasksCatchCopy(req, outcome)) =>
            (alertMsg' # NoAlert /\ emptyState' /\ table' = <<>>) ]_vars

\* C10: every successful mutation, a create, an update or a delete, sends a
\* new task-list request.
C10_MutationRefetches ==
    [][ \A req \in BagToSet(pending) :
          ((\E newId \in TaskIds : handleTaskSubmissionThen(req, newId))
              \/ deleteTaskThen(req)) =>
            IssuedTasksRequests # {} ]_vars

\* ---------------------------------------------- the comment specification

\* What the user types into #commentInput.
CommentTexts == {StrEmpty, StrSpace, StrA, StrPaddedA}

\* The comment lists the backend answers with.
CommentLists == SUBSET CommentIds

\* The comments of the selected task: the list, the rows, the panel, and the
\* handlers of the comment form and of the comment cards; deleteTask is the
\* other handler that asks for confirmation.
NextComments ==
    \/ resetFilters
    \/ \E req \in InFlight("tasks"), list \in FormLists : loadTasksThen(req, list)
    \/ \E req \in InFlight("tasks") : loadTasksCatch(req, "network")
    \/ \E id \in TaskIds : handleTaskRowClick(id)
    \/ \E req \in InFlight("details"), task \in FormTasks : loadTaskDetailsThen(req, task)
    \/ \E req \in InFlight("comments"), list \in CommentLists : loadCommentsThen(req, list)
    \/ \E req \in InFlight("comments"), authentication \in BOOLEAN :
          loadCommentsCatch(req, authentication)
    \/ \E text \in CommentTexts : commentInputChange(text)
    \/ addComment
    \/ \E req \in InFlight("comment.post") : addCommentThen(req)
    \/ \E req \in InFlight("comment.post"), outcome \in Outcomes : addCommentCatch(req, outcome)
    \/ \E id \in CommentIds, confirmed \in BOOLEAN : deleteComment(id, confirmed)
    \/ \E req \in InFlight("comment.delete") : deleteCommentThen(req)
    \/ \E req \in InFlight("comment.delete"), outcome \in Outcomes : deleteCommentCatch(req, outcome)
    \/ \E id \in TaskIds, confirmed \in BOOLEAN : deleteTask(id, confirmed)
    \/ \E req \in InFlight("delete") : deleteTaskThen(req)
    \/ \E req \in InFlight("delete"), outcome \in Outcomes : deleteTaskCatch(req, outcome)

SpecComments == Init /\ [][NextComments]_vars

\* -------------------------------------------------- the date specification

\* The text of the ISO date of a day, and of an instant of it in UTC.
IsoDate(y, m, d) ==
    NumberToString(y) \o <<45>> \o PadStart2(NumberToString(m)) \o <<45>>
        \o PadStart2(NumberToString(d))

IsoDateTime(y, m, d, h) ==
    IsoDate(y, m, d) \o <<84>> \o PadStart2(NumberToString(h)) \o <<58, 48, 48, 90>>

DateYears == {2023, 2024}
DateMonths == {1, 2, 12, 13}
DateDays(m) == IF m \in {1, 12} THEN {1, 28, 31} ELSE {1, 28}
DateHours == {0, 15, 16, 23}

\* The values formatDate is handed: null, the empty string, a text that is no
\* date, and dates and instants, those of a thirteenth month among them.
DateInputs ==
    { DateValue(FALSE, <<>>), DateValue(TRUE, <<>>), DateValue(TRUE, StrA) }
    \cup UNION { { DateValue(TRUE, IsoDate(y, m, d)) : d \in DateDays(m) } :
                    y \in DateYears, m \in DateMonths }
    \cup UNION { { DateValue(TRUE, IsoDateTime(y, m, d, h)) :
                        d \in DateDays(m), h \in DateHours } :
                    y \in DateYears, m \in DateMonths }

InitDate ==
    /\ InitController
    /\ capacity = MaxPending
    /\ dateString \in DateInputs
    /\ formatted = NotFormatted
    /\ InitCharts

\* renderTaskDetails writes formatDate(task.due_date) into the panel.
formatDateCall ==
    /\ formatted = NotFormatted
    /\ formatted' = formatDate(dateString)
    /\ alertMsg' = NoAlert
    /\ lastOp' = "formatDate"
    /\ UNCHANGED << variant, capacity, dashVars, dateString, commentVars, cacheVars, sortVars,
                    selectionVars, tableVars, panelVars, filterVars, formVars,
                    pending >>

NextDate == formatDateCall

SpecDate == InitDate /\ [][NextDate]_vars

\* ------------------------------------------------- the panel specification

InitPanel ==
    /\ InitController
    /\ capacity = MaxPanelPending
    /\ dateString = DateValue(FALSE, <<>>)
    /\ formatted = NotFormatted
    /\ InitCharts

\* Row clicks on the tasks of a list, the details and comments of one click
\* still in flight when the next click is made, every fetch succeeding.
NextPanel ==
    \/ \E req \in InFlight("tasks"), list \in FormLists : loadTasksThen(req, list)
    \/ \E id \in TaskIds : handleTaskRowClick(id)
    \/ closeTaskDetail
    \/ \E req \in InFlight("details"), task \in FormTasks : loadTaskDetailsThen(req, task)
    \/ \E req \in InFlight("comments") : loadCommentsThen(req, {})

SpecPanel == InitPanel /\ [][NextPanel]_vars

\* ------------------------------------------------ the create specification

\* The responses of GET /api/tasks after a create: they hold the task every
\* selection timer in flight waits for.
CreateLists ==
    { list \in FormLists : \A req \in InFlight("timer") : req.id \in IdsOf(list) }

\* The id the backend gives a created task: one that no task has yet.
FreshIds == TaskIds \ (IdsOf(tasks) \cup RowIds)

\* The continuations of the fetches in flight: every GET succeeds, a
\* submission succeeds or fails.
CreateResponses ==
    \/ \E req \in InFlight("tasks"), list \in CreateLists : loadTasksThen(req, list)
    \/ \E req \in InFlight("submit"), newId \in FreshIds : handleTaskSubmissionThen(req, newId)
    \/ \E req \in InFlight("submit"), outcome \in Outcomes :
          handleTaskSubmissionCatch(req, outcome)
    \/ \E req \in InFlight("details"), task \in FormTasks : loadTaskDetailsThen(req, task)
    \/ \E req \in InFlight("comments") : loadCommentsThen(req, {})

\* The 300 ms timers that have expired.
CreateTimers == \E req \in InFlight("timer") : selectTimerFire(req)

\* The creation of tasks through the modal, the list already loaded or not,
\* one submission at a time: the next form is submitted when the timer of
\* the last create has fired.
NextCreate ==
    \/ createTaskClick
    \/ closeModal
    \/ \E projectChosen \in BOOLEAN :
          /\ InFlight("submit") = {}
          /\ InFlight("timer") = {}
          /\ handleTaskSubmission(projectChosen)
    \/ closeTaskDetail
    \/ CreateResponses
    \/ CreateTimers

\* The event loop runs the continuation of every settled fetch and the
\* callback of every expired timer; what the user does has no fairness.
SpecCreate ==
    /\ Init
    /\ [][NextCreate]_vars
    /\ WF_vars(CreateResponses)
    /\ WF_vars(CreateTimers)

\* ------------------------------------------------------------ the dashboard

\* The variables of the task page, which the dashboard leaves alone.
controllerVars ==
    << variant, capacity, cacheVars, sortVars, tableVars, selectionVars, panelVars,
       commentVars, dateVars, filterVars, formVars, pending, alertMsg, lastOp >>

\* refreshProjectChart / refreshUserChart on the canvases of S, one after the
\* other: the chart chartInstances refers to is destroyed and the reference
\* set to null; then initProjectTaskChart / initUserTaskChart runs up to its
\* await: it returns when the document has no canvas, finds no chart to
\* destroy, and fetches the data.
refreshChart(S) ==
    /\ \A c \in S : canvasPresent[c] => chartFetches[c] < MaxChartFetches
    /\ liveCharts' =
          [c \in Canvases |->
              IF c \in S THEN liveCharts[c] \ {chartInstances[c]} ELSE liveCharts[c]]
    /\ chartInstances' = [c \in Canvases |-> IF c \in S THEN Null ELSE chartInstances[c]]
    /\ chartFetches' =
          [c \in Canvases |->
              IF c \in S /\ canvasPresent[c] THEN chartFetches[c] + 1 ELSE chartFetches[c]]
    /\ UNCHANGED << chartsCreated, canvasPresent, controllerVars >>

\* window.refreshProjectChart()
refreshProjectChart == refreshChart({"projectTaskChart"}) /\ UNCHANGED resizeTimer

\* window.refreshUserChart()
refreshUserChart == refreshChart({"userTaskChart"}) /\ UNCHANGED resizeTimer

\* A click on #refreshDashboardBtn: both refreshes, then fetchStats(), which
\* writes the four counters of the page and no chart.
refreshDashboard == refreshChart(Canvases) /\ UNCHANGED resizeTimer

\* A resize event: clearTimeout(resizeTimer), then a timer of 500 ms is set.
handleResize ==
    /\ resizeTimer' = TRUE
    /\ UNCHANGED << chartInstances, liveCharts, chartsCreated, chartFetches, canvasPresent,
                    controllerVars >>

\* The resize timer fires: refreshProjectChart(), refreshUserChart().
resizeTimerFire ==
    /\ resizeTimer
    /\ resizeTimer' = FALSE
    /\ refreshChart(Canvases)

\* The catch of initProjectTaskChart / initUserTaskChart: the container of
\* the chart takes the error message as its innerHTML; a canvas inside the
\* container leaves the document with it.
chartError(c, canvasInside) ==
    [canvasPresent EXCEPT ![c] = @ /\ ~canvasInside]

\* The data of one initialisation of canvas c arrives: new Chart(ctx, ...) is
\* assigned to chartInstances. On a canvas that a chart not destroyed still
\* uses, the constructor of the charting library either throws (Chart.js 3
\* and later: 'Canvas is already in use'), which the catch turns into the
\* error message, or builds a second chart (Chart.js 2).
initChartThen(c, inUseThrows, canvasInside) ==
    /\ chartFetches[c] > 0
    /\ chartsCreated[c] < MaxCharts
    /\ chartFetches' = [chartFetches EXCEPT ![c] = @ - 1]
    /\ IF liveCharts[c] # {} /\ inUseThrows
       THEN /\ canvasPresent' = chartError(c, canvasInside)
            /\ UNCHANGED << chartInstances, liveCharts, chartsCreated >>
       ELSE /\ chartsCreated' = [chartsCreated EXCEPT ![c] = @ + 1]
            /\ liveCharts' = [liveCharts EXCEPT ![c] = @ \cup {chartsCreated[c] + 1}]
            /\ chartInstances' = [chartInstances EXCEPT ![c] = chartsCreated[c] + 1]
            /\ UNCHANGED canvasPresent
    /\ UNCHANGED << resizeTimer, controllerVars >>

\* The fetch of one initialisation of canvas c fails or answers not ok: the
\* catch shows the error message.
initChartCatch(c, canvasInside) ==
    /\ chartFetches[c] > 0
    /\ chartFetches' = [chartFetches EXCEPT ![c] = @ - 1]
    /\ canvasPresent' = chartError(c, canvasInside)
    /\ UNCHANGED << chartInstances, liveCharts, chartsCreated, resizeTimer, controllerVars >>

\* The dashboard: refreshes by button, by script and by resize, and the
\* answers to the data fetches of the chart initialisations in any order.
NextDashboard ==
    \/ refreshProjectChart
    \/ refreshUserChart
    \/ refreshDashboard
    \/ handleResize
    \/ resizeTimerFire
    \/ \E c \in Canvases, inUseThrows \in BOOLEAN, canvasInside \in BOOLEAN :
          initChartThen(c, inUseThrows, canvasInside)
    \/ \E c \in Canvases, canvasInside \in BOOLEAN : initChartCatch(c, canvasInside)

SpecDashboard == Init /\ [][NextDashboard]_vars

\* ------------------------------------------- the concurrency specification

\* The values the status filter takes.
RaceValues == {"all", "done"}

\* The tasks of the backend: an open one and a done one.
RaceTasks ==
    { Task(1, StrA, StrEmpty, StrEmpty, "medium", "todo", Null),
      Task(2, StrA, StrEmpty, StrEmpty, "medium", "done", Null) }

\* What the backend answers a query with: tasks of the status the query asks
\* for, any tasks when it asks for none.
RaceLists(query) ==
    { l \in ListsOver(RaceTasks, MaxTasks) :
        \A i \in DOMAIN query :
            query[i][1] = "status" => \A k \in DOMAIN l : l[k].status = query[i][2] }

\* Several loadTasks requests of different filter values in flight, their
\* responses arriving in any order.
NextRace ==
    \/ resetFilters
    \/ \E value \in RaceValues : filterChange("status", value)
    \/ \E req \in InFlight("tasks") : \E list \in RaceLists(req.query) :
          loadTasksThen(req, list)
    \/ \E req \in InFlight("tasks"), outcome \in Outcomes : loadTasksCatch(req, outcome)
    \/ \E req \in InFlight("tasks"), outcome \in Outcomes : loadTasksCatchCopy(req, outcome)

SpecRace == Init /\ [][NextRace]_vars

\* ------------------------------------------------------------------ claims

\* The requests that the step adds to those in flight.
IssuedRequests ==
    { r \in BagToSet(pending') : CopiesIn(r, pending') > CopiesIn(r, pending) }

\* C11: a submission is sent as PUT /api/tasks/{id} when the form carries a
\* task id and as POST /api/tasks when it carries none; when it succeeds the
\* modal is closed, a task-list request is sent, and, the edited task being
\* the selected one, a request for its details is sent that refreshes the
\* panel.
C11_SubmitMethodAndRefresh ==
    [][ /\ handleTaskSubmission(TRUE) =>
              \E r \in IssuedRequests :
                  /\ IssuedRequests = {r}
                  /\ r.kind = "submit"
                  /\ r.id = formTaskId
                  /\ r.method = IF formTaskId # Null THEN "PUT" ELSE "POST"
        /\ \A req \in InFlight("submit"), newId \in TaskIds :
              handleTaskSubmissionThen(req, newId) =>
                  /\ ~modalOpen'
                  /\ TasksRequest(filters) \in IssuedRequests
                  /\ (req.id # Null /\ req.id = selectedTaskId) =>
                        \E r \in IssuedRequests :
                            r.kind = "details" /\ r.id = selectedTaskId ]_vars

\* The edit of the selected task has just succeeded: the modal is closed and
\* the list and the details of the task are being fetched again.
C11_Witness ==
    /\ lastOp = "submit.then.put"
    /\ ~modalOpen
    /\ selectedTaskId # Null
    /\ \E r \in InFlight("details") : r.id = selectedTaskId
    /\ InFlight("tasks") # {}

\* C12: the submission of a create form with no project chosen is refused on
\* the client: the user is notified, no request is sent, and the task list,
\* the table and the selection stay as they are.
C12_NoProjectRejected ==
    [][ (handleTaskSubmission(FALSE) /\ formTaskId = Null) =>
          /\ alertMsg' # NoAlert
          /\ pending' = pending
          /\ UNCHANGED << tasks, table, selectedTaskId, detailVisible >> ]_vars

\* C13: deleteTask and deleteComment send their DELETE only once the user
\* has confirmed; when the user declines, no request is sent and the table,
\* tasks, selectedTaskId and detailVisible stay as they are.
C13_DeleteOnlyOnceConfirmed ==
    [][ /\ \A id \in TaskIds, confirmed \in BOOLEAN :
              deleteTask(id, confirmed) =>
                IF confirmed
                THEN IssuedRequests = {DeleteRequest(id)}
                ELSE /\ pending' = pending
                     /\ UNCHANGED << table, tasks, selectedTaskId, detailVisible >>
        /\ \A id \in CommentIds, confirmed \in BOOLEAN :
              deleteComment(id, confirmed) =>
                IF confirmed
                THEN IssuedRequests = {CommentDeleteRequest(id)}
                ELSE /\ pending' = pending
                     /\ UNCHANGED << table, tasks, selectedTaskId, detailVisible >>
        /\ (\E r \in IssuedRequests : r.method = "DELETE") =>
              \/ \E id \in TaskIds : deleteTask(id, TRUE)
              \/ \E id \in CommentIds : deleteComment(id, TRUE) ]_vars

\* The user has just declined to delete a comment of the selected task.
C13_Witness ==
    /\ lastOp = "deleteComment.declined"
    /\ comments # {}
    /\ selectedTaskId # Null
    /\ detailVisible
    /\ InFlight("comment.delete") = {}

\* C14: when the server answers the DELETE of deleteTask with an error, the
\* notification carries the error message the server provided, and the row
\* of the task, selectedTaskId and detailVisible are as before the attempt.
C14_DeleteFailureShowsServerMessage ==
    [][ \A req \in InFlight("delete"), outcome \in {"http_json", "http_text"} :
          deleteTaskCatch(req, outcome) =>
            /\ alertMsg' \in {"server error message", "server response text"}
            /\ UNCHANGED << table, selectedTaskId, detailVisible >> ]_vars

\* The text has nothing but blanks.
Blank(text) == \A i \in DOMAIN text : text[i] = 32

\* C15: addComment called with a text that is empty once trimmed sends no
\* request and leaves the comment input and the comment list as they are.
C15_BlankCommentRejected ==
    [][ (addComment /\ Blank(commentInput)) =>
          /\ pending' = pending
          /\ UNCHANGED << commentInput, comments, commentsOf >> ]_vars

\* A comment of blanks has just been refused although a row is marked.
C15_Witness ==
    /\ lastOp = "addComment.empty"
    /\ commentInput = StrSpace
    /\ selectedRow(table) # Null
    /\ comments # {}

\* C16: whenever a task is selected with its detail panel visible and the
\* user submits a comment text that is not empty, a POST to
\* /api/tasks/{selectedTaskId}/comments is sent; when it succeeds the comment
\* input is cleared and the comments of that task are fetched again.
C16_CommentPostedToSelectedTask ==
    [][ /\ (addComment /\ selectedTaskId # Null /\ detailVisible
                /\ ~Blank(commentInput)) =>
              IssuedRequests = {CommentPostRequest(selectedTaskId)}
        /\ \A req \in InFlight("comment.post") :
              addCommentThen(req) =>
                /\ commentInput' = StrEmpty
                /\ CommentsRequest(req.id) \in IssuedRequests ]_vars

\* C17: for every request that the server answers with an error, the message
\* shown is the error message of the JSON body when the body is JSON and the
\* raw text of the response otherwise, for loadComments, addComment,
\* deleteComment and deleteTask alike.
C17_ErrorMessageFromResponseBody ==
    [][ /\ \A req \in BagToSet(pending), outcome \in {"http_json", "http_text"} :
              (\/ addCommentCatch(req, outcome)
               \/ deleteCommentCatch(req, outcome)
               \/ deleteTaskCatch(req, outcome)) =>
                 alertMsg' = IF outcome = "http_json"
                             THEN "server error message"
                             ELSE "server response text"
        /\ \A req \in BagToSet(pending), authentication \in BOOLEAN :
              loadCommentsCatch(req, authentication) =>
                 alertMsg' \in {"server error message", "server response text"} ]_vars

\* C18: after a failed request the user is notified and the controller stays
\* operational: the failure handlers raise a notification, and a later click
\* on a sort header is handled to its end, without an uncaught error.
C18_OperationalAfterFailure ==
    [][ /\ \A req \in BagToSet(pending), outcome \in Outcomes \ {"ok"} :
              (\/ loadTasksCatch(req, outcome)
               \/ loadTasksCatchCopy(req, outcome)
               \/ loadTaskDetailsCatch(req)
               \/ deleteTaskCatch(req, outcome)) =>
                 alertMsg' # NoAlert
        /\ \A field \in SortFields :
              sortHeaderClick(field) => lastOp' = "sort.click" ]_vars

\* The requests in flight that the step takes away.
SettledRequests ==
    { r \in BagToSet(pending) : CopiesIn(r, pending') < CopiesIn(r, pending) }

\* C19: no request in flight is ever cancelled or discarded: a step that sends
\* a task-list request takes none away, a step takes away at most the one
\* request whose response it handles, and every task-list response is applied
\* when it arrives, whatever the filter values its request was built from, so
\* that the list and the table are those of the response that arrived last.
C19_EveryResponseApplied ==
    [][ /\ (resetFilters \/ \E value \in RaceValues : filterChange("status", value)) =>
              SettledRequests = {}
        /\ Cardinality(SettledRequests) <= 1
        /\ \A r \in SettledRequests : CopiesIn(r, pending') = CopiesIn(r, pending) - 1
        /\ \A req \in InFlight("tasks") : \A list \in RaceLists(req.query) :
              loadTasksThen(req, list) =>
                /\ SettledRequests = {req}
                /\ SameTasks(tasks', list)
                /\ RowTasks(table') = tasks' ]_vars

\* The filter asks for the done tasks and nothing is in flight, and yet the
\* list and the table hold an open task: the response of the earlier request
\* arrived after that of the later one.
C19_Witness ==
    /\ lastOp = "loadTasks.then"
    /\ filters.status = "done"
    /\ InFlight("tasks") = {}
    /\ \E i \in DOMAIN tasks : tasks[i].status = "todo"
    /\ RowTasks(table) = tasks

\* C20: the text search is debounced: every keystroke cancels the pending
\* timer and starts a new one, so that at most one timer is pending and a
\* keystroke sends nothing; loadTasks runs only when the timer fires, and
\* then sends exactly one request, built from the filter values of that
\* moment, leaving no timer behind.
C20_SearchDebounced ==
    [][ /\ searchTimer' <= 1
        /\ \A text \in QueryTexts :
              textSearchInput(text) =>
                /\ searchTimer' = 1
                /\ pending' = pending
        /\ debounceFire =>
                /\ searchTimer' = 0
                /\ pending' = pending (+) SetToBag({TasksRequest(filters)}) ]_vars

\* The text was typed and erased again before the timer fired: the one
\* request of the burst carries no search text.
C20_Witness ==
    /\ lastOp = "textSearch.fire"
    /\ searchTimer = 0
    /\ filters.text = ""
    /\ filters.status = "7"
    /\ CopiesIn(TasksRequest(filters), pending) = 1
    /\ BagCardinality(pending) = 1

\* C21: formatDate returns 'Not set' for a null or missing date and 'Invalid
\* date' for a text that cannot be parsed as a date.
C21_FormatDateFallbacks ==
    formatted # NotFormatted =>
        /\ (~dateString.present \/ dateString.text = <<>>) => formatted = StrNotSet
        /\ (dateString.present /\ dateString.text # <<>>
                /\ ParseDate(dateString.text) = InvalidDate) =>
             formatted = StrInvalidDate

\* C22: a successful edit of a task that is not the selected one leaves the
\* detail panel untouched: neither the success continuation of the submission
\* nor the continuation of the details request it sends (the one whose id is
\* the string of the form) changes whether the panel is displayed, the task it
\* shows, selectedTaskId or detailVisible.
C22_EditOfOtherTaskLeavesPanel ==
    [][ /\ \A req \in InFlight("submit"), newId \in TaskIds :
              (handleTaskSubmissionThen(req, newId) /\ req.id # Null
                  /\ req.id # selectedTaskId) =>
                UNCHANGED << panelDisplayed, detailTask, selectedTaskId, detailVisible >>
        /\ \A req \in InFlight("details"), task \in FormTasks :
              (loadTaskDetailsThen(req, task) /\ ~req.numeric
                  /\ req.id # selectedTaskId) =>
                UNCHANGED << panelDisplayed, detailTask, selectedTaskId, detailVisible >> ]_vars

\* C23: the detail panel is displayed if and only if detailVisible is true.
\* The states in which a details request is still in flight are left out, so
\* that the panel waiting for its first response does not count.
C23_PanelDisplayedIffVisible ==
    InFlight("details") = {} => (panelDisplayed <=> detailVisible)

\* C24: whenever the detail panel is displayed and no details or comments
\* request is in flight, the details and the comments shown are those of the
\* task whose id is selectedTaskId. The panel that a late response displays
\* again after it was closed is left out: a task is selected and flagged
\* visible.
C24_PanelShowsSelectedTask ==
    (panelDisplayed /\ detailVisible /\ selectedTaskId # Null
        /\ InFlight("details") = {} /\ InFlight("comments") = {}) =>
        (detailTask = selectedTaskId /\ commentsOf = selectedTaskId)

\* C25: whenever the form is submitted with task id X, the values the
\* controller filled it with come from task X, and a form submitted in create
\* mode holds no values fetched for an existing task.
C25_FormHoldsItsOwnTask ==
    [][ \A projectChosen \in BOOLEAN :
          (handleTaskSubmission(projectChosen) /\ lastOp' # "submit.rejected") =>
            (formSource = Null \/ formSource = formTaskId) ]_vars

\* C26: in every reachable state, when the detail-visible flag is set a task
\* is selected: detailVisible implies selectedTaskId is not null.
C26_VisibleImpliesSelected ==
    detailVisible => selectedTaskId # Null

\* The selected row has been clicked twice: the flag went off and on again
\* while the selection stayed.
C26_Witness ==
    /\ detailVisible
    /\ selectedTaskId # Null
    /\ lastOp = "rowClick.toggle"

\* C27: after every completed operation the cached task list is in the order
\* of currentSortField and currentSortDirection: no two adjacent tasks are out
\* of order under the comparator, a task-detail response that replaces a
\* cached task included.
C27_CacheOrdered ==
    tasksIsArray => Ordered(tasks, currentSortField, currentSortDirection)

\* The ids of a list of tasks, in its order.
IdSeq(list) == [ i \in DOMAIN list |-> list[i].id ]

\* C28: the rows of the table correspond one to one and in order to the
\* cached task list after every operation (a loadTasks that succeeded or
\* failed, a sort click, a deleteTask that succeeded), so that a task whose
\* row deleteTask removed is not in the list a later sort click renders.
C28_TableShowsCache ==
    tasksIsArray => IdSeq(RowTasks(table)) = IdSeq(tasks)

\* C29: after a create submission has succeeded the created task eventually
\* is the selected task, selectedTaskId its id and detailVisible true,
\* whatever the order of the reload response and the 300 ms timer.
C29_CreatedTaskBecomesSelected ==
    \A id \in TaskIds :
        (SelectTimer(id) \in InFlight("timer")) ~> (selectedTaskId = id /\ detailVisible)

====
